---- MODULE Spec2Model ----
(***************************************************************************)
(* Model of rscrape: the extractor chain, the streaming Downloader and the *)
(* scrape() driver of rscrape.py, and the earlier draft scrape_subreddit   *)
(* of old.py.                                                              *)
(*                                                                         *)
(* Strings are sequences of atoms (short strings that are never split by   *)
(* any operation of the code on the URLs of the pool), so that `in`,       *)
(* endswith, split and format are computed, not assumed.                   *)
(***************************************************************************)
EXTENDS Integers, Sequences, FiniteSets, TLC

(* ---- bounds ---- *)
MaxBatch == 2          \* submissions in one listing
MaxChunks == 2         \* 1024-byte chunks in one response body
MaxAlbum == 2          \* images in one imgur album

(* ---- string helpers (Python str operations on atom sequences) ---- *)
Range(s) == {s[i] : i \in 1..Len(s)}

MaxOf(S) == CHOOSE m \in S : \A x \in S : x <= m

\* p in s
Contains(s, p) == \E i \in 0..(Len(s) - Len(p)) : SubSeq(s, i + 1, i + Len(p)) = p

\* s.endswith(p)
EndsWith(s, p) == /\ Len(p) <= Len(s)
                  /\ SubSeq(s, Len(s) - Len(p) + 1, Len(s)) = p

\* s.split(c)[-1]
SplitLast(s, c) ==
    LET idx == {i \in 1..Len(s) : s[i] = c}
    IN IF idx = {} THEN s ELSE SubSeq(s, MaxOf(idx) + 1, Len(s))

(* ---- the submissions a listing can yield ---- *)
Scheme == <<"https:", "/", "/">>

Submissions == <<
  [id |-> "abc1", ups |-> "120", title |-> <<"A", " ", "Cute", " ", "Cat">>,
   url |-> Scheme \o <<"i", ".", "example", ".", "com", "/", "xyz", ".", "jpg">>],
  [id |-> "abc2", ups |-> "7", title |-> <<"clip">>,
   url |-> Scheme \o <<"gfycat", ".", "com", "/", "qWeRtY">>],
  [id |-> "abc3", ups |-> "7", title |-> <<"Cat", "/", "Dog">>,
   url |-> Scheme \o <<"imgur", ".", "com", "/", "BCR6f68">>],
  [id |-> "abc4", ups |-> "7", title |-> <<"direct">>,
   url |-> Scheme \o <<"i", ".", "imgur", ".", "com", "/", "uHc6jXh", ".", "jpg">>],
  [id |-> "abc5", ups |-> "7", title |-> <<"album">>,
   url |-> Scheme \o <<"imgur", ".", "com", "/", "a", "/", "Jjnmu">>],
  [id |-> "abc6", ups |-> "7", title |-> <<"upload">>,
   url |-> Scheme \o <<"i", ".", "reddituploads", ".", "com", "/", "abc">>],
  [id |-> "abc7", ups |-> "7", title |-> <<"post">>,
   url |-> Scheme \o <<"example", ".", "com", "/", "post">>],
  [id |-> "abc8", ups |-> "7", title |-> <<"nodot">>,
   url |-> Scheme \o <<"example", ".", "com", "/", "a", "jpg">>]
>>

\* listings: sequences of distinct submissions, at most MaxBatch long
Batches ==
    UNION {{b \in [1..n -> 1..Len(Submissions)] :
               \A i, j \in 1..n : i # j => b[i] # b[j]} : n \in 0..MaxBatch}

(* ---- Result and the extractors ---- *)
Result(reddit_id, title, link, extension) ==
    [reddit_id |-> reddit_id, title |-> title, link |-> link, extension |-> extension]

NoResult == Result("", <<>>, <<>>, <<>>)

\* extractors = [d, e, i, r]
Chain == <<"DefaultExtractor", "GfycatExtractor", "ImgurExtractor", "RedditExtractor">>

Extractors == Range(Chain)

\* self.extensions of a DefaultExtractor built without arguments
extensions == {<<"jpeg">>, <<"jpg">>, <<"png">>, <<"gif">>}

\* python-slugify on the words of the pool: lower case, every run of
\* non-alphanumerics becomes the separator '_'
Lower(w) ==
    CASE w = "A" -> "a"
      [] w = "Cute" -> "cute"
      [] w = "Cat" -> "cat"
      [] w = "Dog" -> "dog"
      [] OTHER -> w

slugify(title) ==
    [i \in 1..Len(title) |->
        IF title[i] \in {" ", "/"} THEN "_" ELSE Lower(title[i])]

validate_link(e, sub) ==
    CASE e = "DefaultExtractor" -> \E x \in extensions : EndsWith(sub.url, x)
      [] e = "GfycatExtractor" ->
            Contains(sub.url, Scheme \o <<"gfycat", ".", "com">>)
      [] e = "ImgurExtractor" -> Contains(sub.url, <<"imgur", ".", "com">>)
      [] e = "RedditExtractor" ->
            \/ Contains(sub.url, Scheme \o <<"i", ".", "reddituploads", ".", "com">>)
            \/ Contains(sub.url, Scheme \o <<"i", ".", "redd", ".", "it">>)

\* what the network can answer to an extractor's request
ContentTypes == {<<"image", "/", "jpeg">>, <<"image", "/", "png">>}

Replies == {[status |-> "error", type |-> <<>>]}
           \cup {[status |-> "noitem", type |-> <<>>]}
           \cup {[status |-> "ok", type |-> t] : t \in ContentTypes}

Ok(r) == [exc |-> "none", result |-> r]

Exc(name) == [exc |-> name, result |-> NoResult]

\* extract_link of each extractor, given the reply of the remote service
extract_link(e, sub, reply) ==
    CASE e = "DefaultExtractor" ->
            Ok(Result(sub.id, slugify(sub.title), sub.url, SplitLast(sub.url, ".")))
      [] e = "GfycatExtractor" ->
            LET gfycat_id == SplitLast(sub.url, "/")
            IN IF reply.status = "ok"
               THEN Ok(Result(sub.id, slugify(sub.title),
                              Scheme \o <<"giant", ".", "gfycat", ".", "com", "/">>
                                     \o gfycat_id \o <<".", "mp4">>,
                              <<"mp4">>))
               ELSE Exc("NameError")   \* raise ExtractionError: name not in scope
      [] e = "ImgurExtractor" ->
            LET image_id == SplitLast(sub.url, "/")
            IN IF reply.status = "ok"
               THEN Ok(Result(sub.id, sub.title,
                              Scheme \o <<"i", ".", "imgur", ".", "com", "/">>
                                     \o image_id \o <<".">> \o SplitLast(reply.type, "/"),
                              SplitLast(reply.type, "/")))
               ELSE Exc("ImgurClientError")
      [] e = "RedditExtractor" ->
            IF reply.status = "ok"
            THEN Ok(Result(sub.id, slugify(sub.title), sub.url,
                           SplitLast(reply.type, "/")))
            ELSE Exc("ConnectionError")

VARIABLES
    batch,             \* the listing: indices into Submissions
    raise_exceptions,  \* Extractor.raise_exceptions of each extractor
    dirState,          \* the destination path: "absent", "dir" or "file"
    albumSize,         \* number of images of the imgur album
    pc,                \* position in the program
    si,                \* index of the submission in the outer loop
    ei,                \* index of the extractor in the inner loop
    results,           \* scrape: results
    invalid,           \* scrape: invalid
    error,             \* the exception that ended the run, if any
    di,                \* index of the Result in Downloader.download
    stream,            \* the response body being iterated
    files,             \* the files on disk: path -> [res, written]
    \* history
    resultBy,          \* for each element of results, its submission and extractor
    consulted,         \* <<submission, extractor>>: extract was called
    called,            \* <<submission, extractor>>: extract_link was called
    fetched,           \* Results for which requests.get was issued
    opened,            \* paths opened for writing, in order
    returned,          \* Results for which _download returned
    \* old.py
    images,            \* scrape_subreddit: images of the current submission
    ii                 \* index of the image being written

vars == <<batch, raise_exceptions, dirState, albumSize, pc, si, ei, results,
          invalid, error, di, stream, files, resultBy, consulted, called,
          fetched, opened, returned, images, ii>>

NoError == [type |-> "none", sub |-> 0, by |-> "none", at |-> "none"]

NoStream == [total |-> 0, written |-> 0]


(* ---- rscrape.py: Extractor.extract ---- *)
None == [exc |-> "none", some |-> FALSE, result |-> NoResult, called |-> FALSE]

\* extract without the guard of line 65: extract_link is called on any URL
extract_unguarded(e, sub, reply, raise) ==
    LET o == extract_link(e, sub, reply)
    IN IF o.exc = "none"
       THEN [exc |-> "none", some |-> TRUE, result |-> o.result, called |-> TRUE]
       ELSE [None EXCEPT !.exc = "NameError", !.called = TRUE]

\* extract that raises on an invalid link whatever raise_exceptions says
extract_raising(e, sub, reply, raise) ==
    IF ~validate_link(e, sub)
    THEN [None EXCEPT !.exc = "NameError"]
    ELSE LET o == extract_link(e, sub, reply)
         IN IF o.exc = "none"
            THEN [exc |-> "none", some |-> TRUE, result |-> o.result, called |-> TRUE]
            ELSE [None EXCEPT !.exc = "NameError", !.called = TRUE]

\* Extractor.extract(submission): what it returns or raises, and whether it
\* got as far as calling extract_link.  The handler of line 79 evaluates the
\* bare name raise_exceptions (line 80), which is not defined in that scope:
\* every exception of extract_link leaves extract as a NameError.  The same
\* holds for the bare name InvalidFormatError of line 67.
extract(e, sub, reply, raise) ==
    IF ~validate_link(e, sub)
    THEN IF raise
         THEN [None EXCEPT !.exc = "NameError"]
         ELSE None
    ELSE LET o == extract_link(e, sub, reply)
         IN IF o.exc = "none"
            THEN [exc |-> "none", some |-> TRUE, result |-> o.result, called |-> TRUE]
            ELSE [None EXCEPT !.exc = "NameError", !.called = TRUE]

(* ---- rscrape.py: Downloader ---- *)
\* '[{reddit_id}] {title}.{extension}'
Filename(result) ==
    <<"[", result.reddit_id, "]", " ">> \o result.title \o <<".">> \o result.extension

\* '{dir}/{filename}'
Path(dir, filename) == <<dir, "/">> \o filename

\* ensure_dir that swallows the failure of os.makedirs
ensure_dir_swallow(d) ==
    IF d = "absent"
    THEN {[dir |-> "dir", exc |-> "none"], [dir |-> "absent", exc |-> "none"]}
    ELSE {[dir |-> d, exc |-> "none"]}

\* Downloader.ensure_dir: the state of the path afterwards and the exception
ensure_dir(d) ==
    IF d = "absent"
    THEN {[dir |-> "dir", exc |-> "none"], [dir |-> "absent", exc |-> "OSError"]}
    ELSE {[dir |-> d, exc |-> "none"]}

\* open(path, 'wb') succeeds when the directory exists and the file name does
\* not lead into a subdirectory
CanOpen(d, filename) == d = "dir" /\ "/" \notin Range(filename)

(* ---- the run of scrape() ---- *)
Crash(type, sub, by, at) ==
    /\ pc' = "crashed"
    /\ error' = [type |-> type, sub |-> sub, by |-> by, at |-> at]

InitCommon ==
    /\ batch \in Batches
    /\ dirState \in {"absent", "dir", "file"}
    /\ albumSize \in 1..MaxAlbum
    /\ si = 1
    /\ ei = 1
    /\ results = <<>>
    /\ invalid = <<>>
    /\ error = NoError
    /\ di = 1
    /\ stream = NoStream
    /\ files = <<>>
    /\ resultBy = <<>>
    /\ consulted = {}
    /\ called = {}
    /\ fetched = {}
    /\ opened = <<>>
    /\ returned = {}
    /\ images = <<>>
    /\ ii = 1

\* d = DefaultExtractor() ... : every extractor with raise_exceptions=False
Init ==
    /\ InitCommon
    /\ raise_exceptions = [e \in Extractors |-> FALSE]
    /\ pc = IF batch = <<>> THEN "ensure_dir" ELSE "extract"

\* the same loop over a chain of extractors built with any raise_exceptions
InitCfg ==
    /\ InitCommon
    /\ raise_exceptions \in [Extractors -> BOOLEAN]
    /\ pc = IF batch = <<>> THEN "ensure_dir" ELSE "extract"

\* one pass of the inner loop of scrape (lines 247-253): extractor.extract,
\* then append and break, or the next extractor, or invalid.append
Extract ==
    /\ pc = "extract"
    /\ LET sub == Submissions[batch[si]]
           e == Chain[ei]
       IN \E reply \in Replies :
            LET o == extract(e, sub, reply, raise_exceptions[e])
                last == (o.some \/ ei = Len(Chain))
            IN /\ consulted' = consulted \cup {<<si, e>>}
               /\ called' = IF o.called THEN called \cup {<<si, e>>} ELSE called
               /\ IF o.exc # "none"
                  THEN /\ Crash(o.exc, si, e, "extract")
                       /\ UNCHANGED <<si, ei, results, resultBy, invalid>>
                  ELSE /\ error' = error
                       /\ results' = IF o.some THEN Append(results, o.result) ELSE results
                       /\ resultBy' = IF o.some
                                      THEN Append(resultBy, [sub |-> si, by |-> e])
                                      ELSE resultBy
                       /\ invalid' = IF ~o.some /\ ei = Len(Chain)
                                     THEN Append(invalid, sub.url)
                                     ELSE invalid
                       /\ ei' = IF last THEN 1 ELSE ei + 1
                       /\ si' = IF last THEN si + 1 ELSE si
                       /\ pc' = IF last /\ si = Len(batch) THEN "ensure_dir" ELSE "extract"
    /\ UNCHANGED <<batch, raise_exceptions, dirState, albumSize, di, stream, files,
                   fetched, opened, returned, images, ii>>

\* Downloader.download, line 224
EnsureDir ==
    /\ pc = "ensure_dir"
    /\ \E o \in ensure_dir(dirState) :
         /\ dirState' = o.dir
         /\ IF o.exc # "none"
            THEN Crash(o.exc, 0, "none", "ensure_dir")
            ELSE /\ pc' = IF results = <<>> THEN "done" ELSE "get"
                 /\ error' = error
    /\ UNCHANGED <<batch, raise_exceptions, albumSize, si, ei, results, invalid, di,
                   stream, files, resultBy, consulted, called, fetched, opened,
                   returned, images, ii>>

\* Downloader._download, lines 202-213: requests.get, then open
DownloadOpen ==
    /\ pc = "get"
    /\ fetched' = fetched \cup {di}
    /\ LET result == results[di]
           path == Path("test", Filename(result))
       IN \/ /\ Crash("ConnectionError", resultBy[di].sub, "none", "get")
             /\ UNCHANGED <<stream, files, opened>>
          \/ IF CanOpen(dirState, Filename(result))
             THEN /\ \E total \in 0..MaxChunks : stream' = [total |-> total, written |-> 0]
                  /\ files' = (path :> [res |-> di, written |-> 0]) @@ files
                  /\ opened' = Append(opened, path)
                  /\ pc' = "stream"
                  /\ error' = error
             ELSE /\ Crash("OSError", resultBy[di].sub, "none", "open")
                  /\ UNCHANGED <<stream, files, opened>>
    /\ UNCHANGED <<batch, raise_exceptions, dirState, albumSize, si, ei, results,
                   invalid, di, resultBy, consulted, called, returned, images, ii>>

\* Downloader._download, lines 216-220: one step of the loop over the chunks;
\* when the loop ends the file is closed and download goes to the next Result
DownloadChunk ==
    /\ pc = "stream"
    /\ LET path == Path("test", Filename(results[di]))
       IN \/ /\ stream.written < stream.total          \* f.write(chunk)
             /\ stream' = [stream EXCEPT !.written = @ + 1]
             /\ files' = [files EXCEPT ![path].written = @ + 1]
             /\ UNCHANGED <<pc, error, di, returned>>
          \/ /\ stream.written < stream.total          \* iter_content raises
             /\ Crash("ChunkedEncodingError", resultBy[di].sub, "none", "stream")
             /\ UNCHANGED <<stream, files, di, returned>>
          \/ /\ \/ stream.written = stream.total       \* end of the body
                \/ stream.written < stream.total       \* empty chunk: break
             /\ returned' = returned \cup {di}
             /\ di' = di + 1
             /\ stream' = NoStream
             /\ pc' = IF di = Len(results) THEN "done" ELSE "get"
             /\ UNCHANGED <<files, error>>
    /\ UNCHANGED <<batch, raise_exceptions, dirState, albumSize, si, ei, results,
                   invalid, resultBy, consulted, called, fetched, opened, images, ii>>

(* ---- old.py: scrape_subreddit ---- *)
IMAGE_EXTENSIONS == {<<"jpg">>, <<"jpeg">>, <<"png">>, <<"gif">>}

Image(title, link, extension) ==
    [title |-> title, link |-> link, extension |-> extension, filename |-> <<>>]

ImageNames == <<"img1", "img2", "img3">>

\* the images imgur.get_album answers with: one per image of the album,
\* image k of type types[k]
AlbumImages(types) ==
    [k \in 1..Len(types) |->
        Scheme \o <<"i", ".", "imgur", ".", "com", "/", ImageNames[k], ".">>
               \o SplitLast(types[k], "/")]

\* parse_imgur_url: the list of images, or the exception of the imgur client
parse_imgur_url(imgur_url, reply, types) ==
    IF \/ Contains(imgur_url, <<"imgur", ".", "com", "/", "a", "/">>)
       \/ Contains(imgur_url, <<"imgur", ".", "com", "/", "gallery">>)
    THEN IF reply.status = "ok"
         THEN [exc |-> "none",
               images |-> [k \in 1..Len(types) |->
                              Image(<<>>, AlbumImages(types)[k],
                                    SplitLast(AlbumImages(types)[k], "."))]]
         ELSE [exc |-> "ImgurClientError", images |-> <<>>]
    ELSE IF Contains(imgur_url, <<"i", ".", "imgur", ".", "com">>)
    THEN [exc |-> "none",
          images |-> <<Image(<<>>, imgur_url, SplitLast(imgur_url, "."))>>]
    ELSE IF /\ Contains(imgur_url, <<"imgur", ".", "com">>)
            /\ Contains(SplitLast(imgur_url, "/"), <<".">>)
    THEN [exc |-> "none",
          images |-> <<Image(<<>>, imgur_url, SplitLast(imgur_url, "."))>>]
    ELSE IF reply.status = "ok"
         THEN LET link == Scheme \o <<"i", ".", "imgur", ".", "com", "/">>
                                 \o SplitLast(imgur_url, "/") \o <<".">>
                                 \o SplitLast(reply.type, "/")
              IN [exc |-> "none",
                  images |-> <<Image(<<>>, link, SplitLast(link, "."))>>]
         ELSE [exc |-> "ImgurClientError", images |-> <<>>]

\* the try block of lines 140-172: the images of one submission; known is
\* FALSE for the else branch of line 157
Resolve(sub, reply, types) ==
    LET url == sub.url
        named(imgs) == [k \in 1..Len(imgs) |->
                           [imgs[k] EXCEPT !.filename = slugify(sub.title)]]
    IN IF Contains(url, <<"imgur">>)
       THEN LET r == parse_imgur_url(url, reply, types)
            IN [exc |-> r.exc, known |-> TRUE, images |-> named(r.images)]
       ELSE IF Contains(url, <<"reddituploads">>)
       THEN IF reply.status = "ok"
            THEN [exc |-> "none", known |-> TRUE,
                  images |-> named(<<Image(<<>>, url, SplitLast(reply.type, "/"))>>)]
            ELSE [exc |-> "ConnectionError", known |-> TRUE, images |-> <<>>]
       ELSE IF \/ Contains(url, <<"i", ".", "redd", ".", "it">>)
               \/ \E x \in IMAGE_EXTENSIONS : Contains(url, x)
       THEN [exc |-> "none", known |-> TRUE,
             images |-> named(<<Image(<<>>, url, SplitLast(url, "."))>>)]
       ELSE [exc |-> "none", known |-> FALSE, images |-> <<>>]

\* '{image_dir}/[{post_id}][{ups}] {filename}.{extension}'
OldPath(image_dir, sub, image) ==
    <<image_dir, "/", "[", sub.id, "]", "[", sub.ups, "]", " ">>
      \o (IF image.filename # <<>> THEN image.filename ELSE <<"fooobar">>)
      \o <<".">> \o image.extension

InitOld ==
    /\ InitCommon
    /\ raise_exceptions = [e \in Extractors |-> FALSE]
    /\ pc = "old_mkdir"

\* lines 121-124
OldMakeDir ==
    /\ pc = "old_mkdir"
    /\ \/ /\ dirState' = (IF dirState = "absent" THEN "dir" ELSE dirState)
          /\ pc' = IF batch = <<>> THEN "done" ELSE "old_resolve"
          /\ error' = error
       \/ /\ dirState = "absent"
          /\ Crash("OSError", 0, "none", "makedirs")
          /\ UNCHANGED dirState
    /\ UNCHANGED <<batch, raise_exceptions, albumSize, si, ei, results, invalid, di,
                   stream, files, resultBy, consulted, called, fetched, opened,
                   returned, images, ii>>

\* lines 139-179: resolve one submission; an unknown URL and an exception
\* both continue with the next submission
OldResolve ==
    /\ pc = "old_resolve"
    /\ \E reply \in Replies, types \in [1..albumSize -> ContentTypes] :
         LET r == Resolve(Submissions[batch[si]], reply, types)
             skip == (r.exc # "none" \/ ~r.known \/ r.images = <<>>)
         IN /\ images' = IF skip THEN <<>> ELSE r.images
            /\ ii' = 1
            /\ si' = IF skip THEN si + 1 ELSE si
            /\ pc' = IF ~skip THEN "old_write"
                     ELSE IF si = Len(batch) THEN "done" ELSE "old_resolve"
    /\ UNCHANGED <<batch, raise_exceptions, dirState, albumSize, ei, results, invalid,
                   error, di, stream, files, resultBy, consulted, called, fetched,
                   opened, returned>>

\* lines 182-192: fetch one image and write it
OldWrite ==
    /\ pc = "old_write"
    /\ LET sub == Submissions[batch[si]]
           path == OldPath("r-pics", sub, images[ii])
           last == (ii = Len(images))
       IN /\ fetched' = fetched \cup {<<si, ii>>}
          /\ \/ /\ Crash("ConnectionError", si, "none", "get")
                /\ UNCHANGED <<files, opened, returned, ii, si, images>>
             \/ IF dirState = "dir" /\ "/" \notin Range(SubSeq(path, 3, Len(path)))
                THEN /\ files' = (path :> [res |-> <<si, ii>>, written |-> 1]) @@ files
                     /\ opened' = Append(opened, path)
                     /\ returned' = returned \cup {<<si, ii>>}
                     /\ ii' = IF last THEN 1 ELSE ii + 1
                     /\ images' = IF last THEN <<>> ELSE images
                     /\ si' = IF last THEN si + 1 ELSE si
                     /\ pc' = IF ~last THEN "old_write"
                              ELSE IF si = Len(batch) THEN "done" ELSE "old_resolve"
                     /\ error' = error
                ELSE /\ Crash("OSError", si, "none", "open")
                     /\ UNCHANGED <<files, opened, returned, ii, si, images>>
    /\ UNCHANGED <<batch, raise_exceptions, dirState, albumSize, ei, results, invalid,
                   di, stream, resultBy, consulted, called>>

NextOld == OldMakeDir \/ OldResolve \/ OldWrite

SpecOld == InitOld /\ [][NextOld]_vars

Next == Extract \/ EnsureDir \/ DownloadOpen \/ DownloadChunk

Spec == Init /\ [][Next]_vars

SpecCfg == InitCfg /\ [][Next]_vars

(* ---- properties ---- *)
Sub(k) == Submissions[batch[k]]

Matching(sub) == {e \in Extractors : validate_link(e, sub)}

Terminated == pc \in {"done", "crashed"}

\* the Results the chain produced for submission k
ResourcesOf(k) == {d \in 1..Len(results) : resultBy[d].sub = k}

\* the run was ended by an exception raised while submission k was processed
FailedAt(k) == pc = "crashed" /\ error.sub = k

\* C1: when extraction or download fails for submission k, every later
\* submission is still run through the chain and every Result produced for a
\* later submission is still passed to the Downloader.
C1_FailureNeverEndsBatch ==
    \A k \in 1..Len(batch) :
        FailedAt(k) =>
            \A j \in (k + 1)..Len(batch) :
                /\ \E e \in Extractors : <<j, e>> \in consulted
                /\ \A d \in ResourcesOf(j) : d \in fetched

\* C2: a submission whose URL passes validate_link of exactly one extractor
\* gets the Result of that extractor, and extract_link of no other extractor
\* is called for it.
C2_OnlyTheMatchingExtractor ==
    \A k \in 1..Len(batch) :
        \A m \in Extractors :
            Matching(Sub(k)) = {m} =>
                /\ \A e \in Extractors : <<k, e>> \in called => e = m
                /\ k < si =>
                      /\ Cardinality(ResourcesOf(k)) = 1
                      /\ \A d \in ResourcesOf(k) :
                            /\ resultBy[d].by = m
                            /\ \E reply \in Replies :
                                  extract_link(m, Sub(k), reply) = Ok(results[d])

C2_Witness ==
    \E k \in 1..Len(batch) :
        /\ k < si
        /\ Matching(Sub(k)) = {"ImgurExtractor"}
        /\ \E d \in ResourcesOf(k) : resultBy[d].by = "ImgurExtractor"

\* the chain has decided submission k: it went on to the next submission, or
\* extract raised for it
Decided(k) == k < si \/ (FailedAt(k) /\ error.at = "extract")

Skipped(k) ==
    /\ Sub(k).url \in Range(invalid)
    /\ ResourcesOf(k) = {}
    /\ \A e \in Extractors : <<k, e>> \notin called
    /\ ~FailedAt(k)

\* C3 (as stated): a submission whose URL passes no validate_link is recorded
\* as skipped and raises nothing, for every configuration of the extractors.
C3_UnmatchedIsSkipped ==
    \A k \in 1..Len(batch) :
        (Matching(Sub(k)) = {} /\ Decided(k)) => Skipped(k)

\* C3 (amended): a submission whose URL passes no validate_link is recorded
\* as skipped and raises nothing exactly when every extractor of the chain
\* has raise_exceptions=False; otherwise extract of the first extractor with
\* raise_exceptions=True raises and ends the run.
C3_UnmatchedIsSkippedByDefault ==
    \A k \in 1..Len(batch) :
        (Matching(Sub(k)) = {} /\ Decided(k)) =>
            IF \A e \in Extractors : ~raise_exceptions[e]
            THEN Skipped(k)
            ELSE /\ FailedAt(k)
                 /\ raise_exceptions[error.by]
                 /\ Sub(k).url \notin Range(invalid)

C3_Witness ==
    \E k \in 1..Len(batch) :
        /\ Matching(Sub(k)) = {}
        /\ k < si
        /\ \A e \in Extractors : ~raise_exceptions[e]
        /\ Sub(k).url \in Range(invalid)

\* C4: when an extractor accepts a submission and its extract_link fails,
\* the outcome is an extraction failure (ExtractionError) attributed to that
\* extractor, and no later extractor is consulted for the submission.
C4_FailureIsExtractionError ==
    \A k \in 1..Len(batch) :
        (FailedAt(k) /\ error.at = "extract" /\ <<k, error.by>> \in called) =>
            /\ error.type = "ExtractionError"
            /\ \A i \in 1..Len(Chain) :
                  <<k, Chain[i]>> \in consulted =>
                      \E j \in i..Len(Chain) : Chain[j] = error.by

\* the three tallies of a run
Completed == {resultBy[d].sub : d \in returned}

SkippedTally == {k \in 1..Len(batch) : Sub(k).url \in Range(invalid)}

FailedTally == {k \in 1..Len(batch) : FailedAt(k)}

\* C5: at the end of a batch (one that was not ended by the failure to create
\* the destination directory) every submission is counted in exactly one of
\* completed, skipped and failed.
C5_EverySubmissionTallied ==
    (Terminated /\ error.at # "ensure_dir") =>
        \A k \in 1..Len(batch) :
            Cardinality({t \in {"c", "s", "f"} :
                            \/ t = "c" /\ k \in Completed
                            \/ t = "s" /\ k \in SkippedTally
                            \/ t = "f" /\ k \in FailedTally}) = 1

\* C6: a download interrupted after at least one chunk is not counted as
\* completed, leaves its partial file in place, and the Downloader goes on to
\* the remaining Results.
C6_InterruptedDownloadGoesOn ==
    (pc = "crashed" /\ error.at = "stream" /\ stream.written >= 1) =>
        /\ di \notin returned
        /\ Path("test", Filename(results[di])) \in DOMAIN files
        /\ \A d \in (di + 1)..Len(results) : d \in fetched

\* C7: any two Resources written to disk, the images of one album included,
\* are written to distinct paths.
C7_DistinctPaths ==
    \A i, j \in 1..Len(opened) : i # j => opened[i] # opened[j]

IsAlbum(url) ==
    \/ Contains(url, <<"/", "a", "/">>)
    \/ Contains(url, <<"/", "gallery", "/">>)

\* C8: an imgur URL with an album segment resolves to one Result per image of
\* the album, any other imgur URL to exactly one Result.
C8_AlbumFansOut ==
    \A k \in 1..Len(batch) :
        (k < si /\ Contains(Sub(k).url, <<"imgur", ".", "com">>)) =>
            Cardinality(ResourcesOf(k)) =
                (IF IsAlbum(Sub(k).url) THEN albumSize ELSE 1)

\* C9: a Result of DefaultExtractor has the submission's URL as link and an
\* extension that is one of the known extensions, without '/'.
C9_DefaultExtension ==
    \A d \in 1..Len(results) :
        resultBy[d].by = "DefaultExtractor" =>
            /\ results[d].link = Sub(resultBy[d].sub).url
            /\ results[d].extension \in extensions
            /\ results[d].extension # <<>>
            /\ "/" \notin Range(results[d].extension)

\* C10: the destination directory exists before the first file is opened,
\* and when creating it fails the run ends with an error before any Result is
\* fetched or written.
C10_DirectoryBeforeDownload ==
    /\ opened # <<>> => dirState = "dir"
    /\ fetched # {} => pc \in {"get", "stream", "done", "crashed"}
    /\ (pc \notin {"extract", "ensure_dir"} /\ dirState = "absent") =>
          /\ pc = "crashed"
          /\ error.at \in {"extract", "ensure_dir"}
          /\ fetched = {}
          /\ opened = <<>>
          /\ files = <<>>

C10_Witness ==
    /\ pc = "crashed"
    /\ error.at = "ensure_dir"
    /\ dirState = "absent"
    /\ results # <<>>

====
